---- MODULE Spec2Model ----
(***************************************************************************)
(* The collaboration core of the repository: SyncManager                   *)
(* (src/src/collaboration/sync_manager.py), its ConflictResolver           *)
(* (conflict_resolver.py) and the VersionControlManager it flushes to      *)
(* (version_control.py).                                                   *)
(*                                                                         *)
(* The program runs on one asyncio event loop, so a coroutine runs         *)
(* atomically up to an await that really suspends.  Awaits on the          *)
(* unbounded asyncio.Queue (put) and on coroutines that themselves never   *)
(* suspend do not yield; the suspension points are the database calls      *)
(* (record_operation, record_conflict, update_user_activity), a get on an  *)
(* empty queue, and an acquire of the asyncio.Lock of the version-control  *)
(* manager while it is held.  What a coroutine does after a database call  *)
(* returns touches only its own result and the events it then puts, so an  *)
(* action takes the call and its continuation in one step, with the call's *)
(* outcome (returns or raises) as a parameter.  Where the interleaving of  *)
(* a suspended push with other coroutines is the question, the push stops  *)
(* in record_operation (in_flight) and goes on in a step of its own.       *)
(*                                                                         *)
(* Python values: Optional[T] is a sequence of length at most one (None is *)
(* <<>>, a value v is <<v>>); a dict is a function whose DOMAIN is its key *)
(* set; an object that is shared by reference and mutated (SyncOperation)  *)
(* lives in the heap ops and is referred to by its index.                  *)
(***************************************************************************)
EXTENDS Integers, Sequences, FiniteSets, TLC

\* ------------------------------------------------------------ bounds ----
\* Operations created (pushed or synthesised) in one behaviour.
MaxOps == 3
\* Delivery channels (asyncio.Queue objects) created by subscribe.
MaxChan == 2
\* Events explored per delivery channel.
MaxChanLen == 3

\* --------------------------------------------------- program constants ----
\* SyncManager.recent_ops_limit
recent_ops_limit == 10
\* self.operation_queue = asyncio.Queue(): no maxsize is given, which is 0
maxsize == 0

\* ------------------------------------------------------------- inputs ----
Users == {"A", "B"}
\* Paths that exist in the file system (Path(p).exists()).
ExistingPaths == {"f", "g"}
\* Every path a caller may name.
Paths == ExistingPaths \cup {"nofile"}
\* Keys a caller may subscribe to: subscribe() takes any string as its path,
\* and connect_user() keeps the per-user sets in the same dict.
SubKeys == Paths \cup Users
Kinds == {"insert", "delete", "modify"}
SYSTEM == "system"

None == <<>>
Some(v) == <<v>>
IsNone(o) == o = <<>>
Val(o) == o[1]

\* The operations callers submit (operation_type, path, content, position).
OpInputs ==
    { [operation_type |-> "modify", path |-> "f", content |-> Some("v"), position |-> None],
      [operation_type |-> "modify", path |-> "f", content |-> Some(""),  position |-> None],
      [operation_type |-> "modify", path |-> "g", content |-> Some("w"), position |-> None],
      [operation_type |-> "delete", path |-> "f", content |-> None,      position |-> Some(5)],
      [operation_type |-> "insert", path |-> "f", content |-> Some("a"), position |-> Some(5)],
      [operation_type |-> "insert", path |-> "f", content |-> None,      position |-> Some(6)],
      [operation_type |-> "rename", path |-> "f", content |-> Some("v"), position |-> None],
      [operation_type |-> "modify", path |-> "nofile", content |-> Some("v"), position |-> None] }

\* ------------------------------------------------------ dict helpers ----
Put(d, k, v) == [x \in (DOMAIN d) \cup {k} |-> IF x = k THEN v ELSE d[x]]
Del(d, k) == [x \in (DOMAIN d) \ {k} |-> d[x]]
EmptyDict == [x \in {} |-> {}]
\* dict.get(k, default)
Get(d, k, default) == IF k \in DOMAIN d THEN d[k] ELSE default

\* -------------------------------------------------------------- state ----
VARIABLES
    users,               \* SyncState.users
    locked_files,        \* SyncState.locked_files: path -> user_id
    version,             \* SyncState.version
    recent_operations,   \* SyncState.recent_operations: path -> list of operations
    ops,                 \* the SyncOperation objects created so far
    operation_queue,     \* SyncManager.operation_queue
    pending_operations,  \* SyncManager.pending_operations: user_id -> list
    subscribers,         \* SyncManager.subscribers: key -> set of queues
    chan,                \* what was put on each delivery queue, in order
    conflicts,           \* ConflictResolver.conflicts: path -> list of Conflict
    running,             \* SyncManager.running
    loop,                \* where the _process_operations task is
    active_branch,       \* repo.active_branch.name
    vc_lock,             \* VersionControlManager.lock: None or the task holding it
    hung,                \* calls waiting for vc_lock
    recent_ops,          \* the recent operations handed to check_conflict
    current_conflict,    \* the Conflict check_conflict returned, or one built directly
    in_flight,           \* pushes suspended in "await self.db_manager.record_operation"
    last                 \* the call the last step belongs to, and its outcome

vars == << users, locked_files, version, recent_operations, ops, operation_queue,
           pending_operations, subscribers, chan, conflicts, running, loop,
           active_branch, vc_lock, hung, recent_ops,
           current_conflict, in_flight, last >>

syncState == << users, locked_files, version, recent_operations >>
opState   == << ops, operation_queue, pending_operations, conflicts >>
subState  == << subscribers, chan >>
loopState == << running, loop >>
vcState   == << active_branch, vc_lock >>
\* A ConflictResolver called on its own, as the tests of the repository do.
callState == << recent_ops, current_conflict >>

\* A call: its name, its user and path (or key) arguments, what it returned or
\* raised, and a number that tells more: the operation a push queued or an
\* iteration applied, the queue of a subscription, how many locks a
\* disconnection released.
Call(c, u, p, r, o) == [call |-> c, user |-> u, path |-> p, result |-> r, ref |-> o]

\* SyncManager.__init__
Init ==
    /\ users = {}
    /\ locked_files = EmptyDict
    /\ version = 0
    /\ recent_operations = EmptyDict
    /\ ops = <<>>
    /\ operation_queue = <<>>
    /\ pending_operations = EmptyDict
    /\ subscribers = EmptyDict
    /\ chan = <<>>
    /\ conflicts = EmptyDict
    /\ running = FALSE
    /\ loop = "none"
    /\ active_branch = "main"
    /\ vc_lock = None
    /\ hung = {}
    /\ recent_ops = <<>>
    /\ current_conflict = None
    /\ in_flight = {}
    /\ last = Call("init", "", "", "ok", 0)

\* The consumer task is between two iterations with the queue not empty: it
\* does not yield to the event loop, so no other coroutine runs.
Busy == loop = "busy"

\* --------------------------------------------------------- events ----
Event(t, p, u, o) == [type |-> t, path |-> p, user_id |-> u, op |-> o]

\* The queues registered under the keys ks.
QueuesOf(subs, ks) == UNION { subs[k] : k \in ks \cap DOMAIN subs }

\* queue.put(e) on every queue of qs.
Deliver(ch, qs, e) == [c \in DOMAIN ch |-> IF c \in qs THEN Append(ch[c], e) ELSE ch[c]]

\* The exploration bound on channel contents.
Room == \A c \in DOMAIN chan : Len(chan[c]) < MaxChanLen

\* SyncManager._broadcast_lock_event
BroadcastLockEvent(ch, subs, t, p, u) ==
    Deliver(ch, QueuesOf(subs, {p}), Event(t, p, u, 0))

\* SyncManager._broadcast_user_event, with the users registered at that time
BroadcastUserEvent(ch, subs, us, t, u) ==
    Deliver(ch, QueuesOf(subs, us), Event(t, "", u, 0))

\* SyncManager._broadcast_commit_event
BroadcastCommitEvent(ch, subs, us, u) ==
    Deliver(ch, QueuesOf(subs, us), Event("commit", "", u, 0))

\* ------------------------------------------------------------ locks ----
\* _can_modify_file without the comparison of the holder
CanModifyFileAlways(p, u) == TRUE

\* SyncManager._can_modify_file
CanModifyFile(p, u) ==
    IF p \notin DOMAIN locked_files THEN TRUE ELSE locked_files[p] = u

\* acquire_lock that lets the holder acquire again (a re-entrant lock)
AcquireLockReentrant(p, u) ==
    /\ ~Busy /\ Room
    /\ IF p \in DOMAIN locked_files /\ locked_files[p] # u
       THEN /\ last' = Call("acquire_lock", u, p, "false", 0)
            /\ UNCHANGED << locked_files, chan >>
       ELSE /\ locked_files' = Put(locked_files, p, u)
            /\ chan' = BroadcastLockEvent(chan, subscribers, "lock_acquired", p, u)
            /\ last' = Call("acquire_lock", u, p, "true", 0)
    /\ UNCHANGED << users, version, recent_operations, opState, subscribers,
                    loopState, vcState, hung >>
    /\ UNCHANGED << callState, in_flight >>

\* SyncManager.acquire_lock
AcquireLock(p, u) ==
    /\ ~Busy /\ Room
    /\ IF p \in DOMAIN locked_files
       THEN /\ last' = Call("acquire_lock", u, p, "false", 0)
            /\ UNCHANGED << locked_files, chan >>
       ELSE /\ locked_files' = Put(locked_files, p, u)
            /\ chan' = BroadcastLockEvent(chan, subscribers, "lock_acquired", p, u)
            /\ last' = Call("acquire_lock", u, p, "true", 0)
    /\ UNCHANGED << users, version, recent_operations, opState, subscribers,
                    loopState, vcState, hung >>
    /\ UNCHANGED << callState, in_flight >>

\* release_lock that tests "path in locked_files" and not the holder
ReleaseLockAnyHolder(p, u) ==
    /\ ~Busy /\ Room
    /\ IF p \notin DOMAIN locked_files
       THEN /\ last' = Call("release_lock", u, p, "false", 0)
            /\ UNCHANGED << locked_files, chan >>
       ELSE /\ locked_files' = Del(locked_files, p)
            /\ chan' = BroadcastLockEvent(chan, subscribers, "lock_released", p, u)
            /\ last' = Call("release_lock", u, p, "true", 0)
    /\ UNCHANGED << users, version, recent_operations, opState, subscribers,
                    loopState, vcState, hung >>
    /\ UNCHANGED << callState, in_flight >>

\* SyncManager.release_lock
ReleaseLock(p, u) ==
    /\ ~Busy /\ Room
    /\ IF Get(locked_files, p, "") # u
       THEN /\ last' = Call("release_lock", u, p, "false", 0)
            /\ UNCHANGED << locked_files, chan >>
       ELSE /\ locked_files' = Del(locked_files, p)
            /\ chan' = BroadcastLockEvent(chan, subscribers, "lock_released", p, u)
            /\ last' = Call("release_lock", u, p, "true", 0)
    /\ UNCHANGED << users, version, recent_operations, opState, subscribers,
                    loopState, vcState, hung >>
    /\ UNCHANGED << callState, in_flight >>

\* _release_user_locks that deletes only the first path it finds
ReleaseUserLocksFirst(lf, u) ==
    LET held == { q \in DOMAIN lf : lf[q] = u }
    IN  IF held = {} THEN lf
        ELSE Del(lf, CHOOSE q \in held : \A r \in held : q = r \/ q \in {"f"})

\* SyncManager._release_user_locks
ReleaseUserLocks(lf, u) ==
    [p \in { q \in DOMAIN lf : lf[q] # u } |-> lf[p]]

\* ------------------------------------------------- version control ----
UserBranch(u) == "user/" \o u
Task(c, u) == [call |-> c, user |-> u]

\* VersionControlManager.create_branch_for_user -> switch_branch(create=True):
\* the checkout succeeds or raises (caught, returns False).
CreateBranchForUser(u, checkout_ok) ==
    IF checkout_ok THEN UserBranch(u) ELSE active_branch

\* ------------------------------------------------------- sessions ----
\* SyncManager.connect_user.  It never returns when switch_branch finds the
\* version-control lock held ("async with self.lock").
ConnectUser(u, checkout_ok) ==
    /\ ~Busy /\ Room
    /\ Task("connect_user", u) \notin hung
    /\ users' = users \cup {u}
    /\ subscribers' = Put(subscribers, u, {})
    /\ pending_operations' = Put(pending_operations, u, <<>>)
    /\ IF vc_lock # None
       THEN /\ hung' = hung \cup {Task("connect_user", u)}
            /\ last' = Call("connect_user", u, "", "hung", 0)
            /\ UNCHANGED << active_branch, chan >>
       ELSE /\ active_branch' = CreateBranchForUser(u, checkout_ok)
            /\ chan' = BroadcastUserEvent(chan, subscribers', users', "user_connected", u)
            /\ last' = Call("connect_user", u, "", "ok", 0)
            /\ UNCHANGED hung
    /\ UNCHANGED << locked_files, version, recent_operations, ops, operation_queue,
                    conflicts, loopState, vc_lock >>
    /\ UNCHANGED << callState, in_flight >>

\* SyncManager.disconnect_user with SyncManager._commit_user_changes,
\* VersionControlManager.stage_changes and commit_changes.  stage_ok and
\* commit_ok are what the git calls do (succeed or raise).
DisconnectUser(u, stage_ok, commit_ok) ==
    /\ ~Busy /\ Room
    /\ Task("disconnect_user", u) \notin hung
    /\ LET flush   == u \in DOMAIN pending_operations /\ pending_operations[u] # <<>>
           \* stage_changes: "async with self.lock" while the lock is held
           waits   == flush /\ vc_lock # None
           \* commit_changes holds the lock and awaits switch_branch, which
           \* enters "async with self.lock" on the same asyncio.Lock
           relock  == flush /\ vc_lock = None /\ stage_ok
                            /\ UserBranch(u) # active_branch
           commits == flush /\ vc_lock = None /\ stage_ok
                            /\ UserBranch(u) = active_branch /\ commit_ok
           pend1   == IF commits THEN Put(pending_operations, u, <<>>)
                                 ELSE pending_operations
           chan1   == IF commits THEN BroadcastCommitEvent(chan, subscribers, users, u)
                                 ELSE chan
       IN  IF waits \/ relock
           THEN /\ hung' = hung \cup {Task("disconnect_user", u)}
                /\ vc_lock' = IF relock THEN Some(Task("disconnect_user", u)) ELSE vc_lock
                /\ last' = Call("disconnect_user", u, "", "hung", 0)
                /\ UNCHANGED << users, locked_files, pending_operations, chan >>
           ELSE IF u \notin users
           THEN \* self.state.users.remove(user_id)
                /\ last' = Call("disconnect_user", u, "", "KeyError", 0)
                /\ UNCHANGED << users, locked_files, pending_operations, chan,
                                hung, vc_lock >>
           ELSE /\ users' = users \ {u}
                /\ locked_files' = ReleaseUserLocks(locked_files, u)
                /\ pending_operations' = Del(pend1, u)
                /\ chan' = BroadcastUserEvent(chan1, subscribers, users \ {u},
                                              "user_disconnected", u)
                /\ last' = Call("disconnect_user", u, "", "ok",
                                Cardinality({ p \in DOMAIN locked_files : locked_files[p] = u }))
                /\ UNCHANGED << hung, vc_lock >>
    /\ UNCHANGED << version, recent_operations, ops, operation_queue, conflicts,
                    subscribers, loopState, active_branch >>
    /\ UNCHANGED << callState, in_flight >>

\* --------------------------------------------------- subscriptions ----
\* SyncManager.subscribe
Subscribe(u, k) ==
    /\ ~Busy
    /\ Len(chan) < MaxChan
    /\ LET q == Len(chan) + 1
       IN  /\ chan' = Append(chan, <<>>)
           /\ subscribers' = Put(subscribers, k, Get(subscribers, k, {}) \cup {q})
           /\ last' = Call("subscribe", u, k, "ok", q)
    /\ UNCHANGED << syncState, opState, loopState, vcState, hung >>
    /\ UNCHANGED << callState, in_flight >>

\* SyncManager.unsubscribe
Unsubscribe(k, q) ==
    /\ ~Busy
    /\ q \in DOMAIN chan
    /\ IF k \notin DOMAIN subscribers
       THEN /\ last' = Call("unsubscribe", "", k, "ok", q)
            /\ UNCHANGED subscribers
       ELSE IF q \notin subscribers[k]
       THEN \* set.remove(queue)
            /\ last' = Call("unsubscribe", "", k, "KeyError", q)
            /\ UNCHANGED subscribers
       ELSE /\ subscribers' = Put(subscribers, k, subscribers[k] \ {q})
            /\ last' = Call("unsubscribe", "", k, "ok", q)
    /\ UNCHANGED << syncState, opState, chan, loopState, vcState, hung >>
    /\ UNCHANGED << callState, in_flight >>

\* ------------------------------------------------------ start, stop ----
\* SyncManager.start: init_db returns or raises; the consumer task is created
\* once.
Start(db_ok) ==
    /\ loop = "none" /\ ~running
    /\ running' = TRUE
    /\ loop' = IF db_ok THEN "top" ELSE "none"
    /\ last' = Call("start", "", "", IF db_ok THEN "ok" ELSE "PersistenceError", 0)
    /\ UNCHANGED << syncState, opState, subState, vcState, hung >>
    /\ UNCHANGED << callState, in_flight >>

\* SyncManager.stop
Stop ==
    /\ ~Busy
    /\ running
    /\ running' = FALSE
    /\ last' = Call("stop", "", "", "ok", 0)
    /\ UNCHANGED << syncState, opState, subState, loop, vcState, hung >>
    /\ UNCHANGED << callState, in_flight >>

\* ------------------------------------------------ conflict detection ----
\* sorted(seq, key=K): a stable sort of a sequence of operation ids
RECURSIVE InsertByKey(_, _, _)
InsertByKey(sorted, x, K) ==
    IF sorted = <<>> THEN <<x>>
    ELSE IF K[Head(sorted)] <= K[x]
         THEN <<Head(sorted)>> \o InsertByKey(Tail(sorted), x, K)
         ELSE <<x>> \o sorted

RECURSIVE SortedByKey(_, _)
SortedByKey(s, K) ==
    IF s = <<>> THEN <<>>
    ELSE InsertByKey(SortedByKey(SubSeq(s, 1, Len(s) - 1), K), s[Len(s)], K)

Abs(n) == IF n < 0 THEN -n ELSE n
Range(s) == { s[i] : i \in 1..Len(s) }

\* ConflictResolver._modifications_overlap is called by _operations_conflict
\* and defined nowhere under src/; the specification has any two modify
\* operations on one path overlap.
ModificationsOverlap(op1, op2) == TRUE

\* _operations_conflict without the comparison of the two users
OperationsConflictAnyUser(op1, op2) ==
    IF op1.path # op2.path THEN "no"
    ELSE IF op1.operation_type = "modify" /\ op2.operation_type = "modify"
         THEN IF ModificationsOverlap(op1, op2) THEN "yes" ELSE "no"
    ELSE IF "delete" \in {op1.operation_type, op2.operation_type} THEN "yes"
    ELSE IF op1.operation_type = "insert" /\ op2.operation_type = "insert"
         THEN IF IsNone(op1.position) \/ IsNone(op2.position) THEN "raise"
              ELSE IF Abs(Val(op1.position) - Val(op2.position)) < 2 THEN "yes" ELSE "no"
    ELSE "no"

\* _operations_conflict with "<= 2" for the distance of two inserts
OperationsConflictWithin2(op1, op2) ==
    IF op1.path # op2.path THEN "no"
    ELSE IF op1.user_id = op2.user_id THEN "no"
    ELSE IF op1.operation_type = "modify" /\ op2.operation_type = "modify"
         THEN IF ModificationsOverlap(op1, op2) THEN "yes" ELSE "no"
    ELSE IF "delete" \in {op1.operation_type, op2.operation_type} THEN "yes"
    ELSE IF op1.operation_type = "insert" /\ op2.operation_type = "insert"
         THEN IF IsNone(op1.position) \/ IsNone(op2.position) THEN "raise"
              ELSE IF Abs(Val(op1.position) - Val(op2.position)) <= 2 THEN "yes" ELSE "no"
    ELSE "no"

\* ConflictResolver._operations_conflict: "yes", "no", or "raise" when
\* abs(op1.position - op2.position) meets a None position
OperationsConflict(op1, op2) ==
    IF op1.path # op2.path THEN "no"
    ELSE IF op1.user_id = op2.user_id THEN "no"
    ELSE IF op1.operation_type = "modify" /\ op2.operation_type = "modify"
         THEN IF ModificationsOverlap(op1, op2) THEN "yes" ELSE "no"
    ELSE IF "delete" \in {op1.operation_type, op2.operation_type} THEN "yes"
    ELSE IF op1.operation_type = "insert" /\ op2.operation_type = "insert"
         THEN IF IsNone(op1.position) \/ IsNone(op2.position) THEN "raise"
              ELSE IF Abs(Val(op1.position) - Val(op2.position)) < 2 THEN "yes" ELSE "no"
    ELSE "no"

Conflict(operations, us) ==
    [operations |-> operations, users |-> us, resolved |-> FALSE, resolution |-> None]

\* check_conflict building the list as conflicts + [operation]
CheckConflictRecentFirst(h, new, recent) ==
    LET raised == \E i \in 1..Len(recent) : OperationsConflict(h[new], h[recent[i]]) = "raise"
        hits == SelectSeq(recent, LAMBDA r : OperationsConflict(h[new], h[r]) = "yes")
    IN  IF raised \/ hits = <<>> THEN None
        ELSE Some(Conflict(hits \o <<new>>,
                           { h[hits[i]].user_id : i \in 1..Len(hits) } \cup {h[new].user_id}))

\* check_conflict that stops at the first recent operation that conflicts
CheckConflictFirstHit(h, new, recent) ==
    LET raised == \E i \in 1..Len(recent) : OperationsConflict(h[new], h[recent[i]]) = "raise"
        hits == SelectSeq(recent, LAMBDA r : OperationsConflict(h[new], h[r]) = "yes")
    IN  IF raised \/ hits = <<>> THEN None
        ELSE Some(Conflict(<<new, hits[1]>>, {h[hits[1]].user_id, h[new].user_id}))

\* check_conflict with the try around each comparison instead of the loop: a
\* comparison that raises is skipped and the other conflicts are reported
CheckConflictSkipRaised(h, new, recent) ==
    LET hits == SelectSeq(recent, LAMBDA r : OperationsConflict(h[new], h[r]) = "yes")
    IN  IF hits = <<>> THEN None
        ELSE Some(Conflict(<<new>> \o hits,
                           { h[hits[i]].user_id : i \in 1..Len(hits) } \cup {h[new].user_id}))

\* ConflictResolver.check_conflict on the heap h: None, or the Conflict of the
\* new operation with every recent operation it conflicts with.  An exception
\* in the loop is caught and None returned.
CheckConflict(h, new, recent) ==
    LET verdict(i) == OperationsConflict(h[new], h[recent[i]])
        raised == \E i \in 1..Len(recent) : verdict(i) = "raise"
        hits == SelectSeq(recent, LAMBDA r : OperationsConflict(h[new], h[r]) = "yes")
    IN  IF raised \/ hits = <<>> THEN None
        ELSE Some(Conflict(<<new>> \o hits,
                           { h[hits[i]].user_id : i \in 1..Len(hits) } \cup {h[new].user_id}))

\* ------------------------------------------------ conflict resolution ----
Synthetic(kind, path, content, position, ts) ==
    [operation_type |-> kind, path |-> path, content |-> content, position |-> position,
     user_id |-> SYSTEM, timestamp |-> ts, version |-> -1]

\* What a strategy returns: the heap it leaves and None or the resulting operation.
Outcome(h, r) == [heap |-> h, result |-> r]

\* The longest text that is split, in lines.
MaxLines == 2

\* Texts and their lines.  A content of the model is a text in which every
\* character stands for one line with its line end, so that the concatenation
\* of texts is the concatenation of their lines.
Line == {"a", "b", "c", "v", "w", "x"}
Texts == UNION { [1..n -> Line] : n \in 0..MaxLines }

\* ''.join(lines)
RECURSIVE Join(_)
Join(lines) == IF lines = <<>> THEN "" ELSE lines[1] \o Join(Tail(lines))

\* str.splitlines(True): the lines whose concatenation is s
LinesOf == [s \in { Join(lines) : lines \in Texts } |->
               CHOOSE lines \in Texts : Join(lines) = s]
SplitLines(s) == LinesOf[s]

Tagged(tag, lines) == [i \in 1..Len(lines) |-> [tag |-> tag, line |-> lines[i]]]

\* SequenceMatcher.find_longest_match: the blocks a[i..i+k-1] = b[j..j+k-1],
\* and of the longest ones the first in a, of these the first in b.
Blocks(a, b) ==
    { m \in (1..Len(a)) \X (1..Len(b)) \X (1..Len(a)) :
          /\ m[1] + m[3] - 1 <= Len(a)
          /\ m[2] + m[3] - 1 <= Len(b)
          /\ SubSeq(a, m[1], m[1] + m[3] - 1) = SubSeq(b, m[2], m[2] + m[3] - 1) }
LongestMatch(a, b) ==
    CHOOSE m \in Blocks(a, b) :
        \A n \in Blocks(a, b) :
            \/ n[3] < m[3]
            \/ n[3] = m[3] /\ m[1] < n[1]
            \/ n[3] = m[3] /\ m[1] = n[1] /\ m[2] <= n[2]

\* difflib.Differ.compare(a, b) on lines no two of which are similar: the
\* lines of a matching block are tagged "  "; between the blocks the lines
\* only in a are tagged "- " and the lines only in b "+ " (_plain_replace:
\* the shorter side first).
RECURSIVE Compare(_, _)
Compare(a, b) ==
    IF a = <<>> THEN Tagged("+ ", b)
    ELSE IF b = <<>> THEN Tagged("- ", a)
    ELSE IF Blocks(a, b) = {}
         THEN IF Len(b) < Len(a) THEN Tagged("+ ", b) \o Tagged("- ", a)
                                 ELSE Tagged("- ", a) \o Tagged("+ ", b)
    ELSE LET m == LongestMatch(a, b)
         IN  Compare(SubSeq(a, 1, m[1] - 1), SubSeq(b, 1, m[2] - 1))
             \o Tagged("  ", SubSeq(a, m[1], m[1] + m[3] - 1))
             \o Compare(SubSeq(a, m[1] + m[3], Len(a)), SubSeq(b, m[2] + m[3], Len(b)))

\* [l[2:] for l in diff if l.startswith('  ') or l.startswith('+ ')] keeping
\* the lines tagged "- " as well
KeptWithRemoved(diff) ==
    LET kept == SelectSeq(diff, LAMBDA l : l.tag \in {"  ", "+ ", "- "})
    IN  [i \in 1..Len(kept) |-> kept[i].line]

\* [l[2:] for l in diff if l.startswith('  ') or l.startswith('+ ')]
Kept(diff) ==
    LET kept == SelectSeq(diff, LAMBDA l : l.tag \in {"  ", "+ "})
    IN  [i \in 1..Len(kept) |-> kept[i].line]

\* The loop of _merge_changes from change i on.
RECURSIVE MergeFrom(_, _, _)
MergeFrom(current, change_lines, i) ==
    IF i > Len(change_lines) THEN current
    ELSE MergeFrom(Kept(Compare(current, change_lines[i])), change_lines, i + 1)

\* ConflictResolver._merge_changes: a None content raises inside the try and
\* None is returned.
MergeChanges(base, changes) ==
    IF IsNone(base) \/ \E i \in 1..Len(changes) : IsNone(changes[i]) THEN None
    ELSE Some(Join(MergeFrom(SplitLines(Val(base)),
                             [i \in 1..Len(changes) |-> SplitLines(Val(changes[i]))], 1)))

\* ConflictResolver._resolve_modify_conflict
ResolveModifyConflict(h, operations) ==
    LET sorted_ops == SortedByKey(operations, [i \in Range(operations) |-> h[i].timestamp])
        base_content == h[sorted_ops[1]].content
        merged_content == MergeChanges(base_content,
                              [i \in 1..(Len(sorted_ops) - 1) |-> h[sorted_ops[i + 1]].content])
    IN  IF IsNone(merged_content) \/ merged_content = Some("")
        THEN Outcome(h, None)
        ELSE Outcome(Append(h, Synthetic("modify", h[operations[1]].path, merged_content,
                                         None, Len(h) + 1)),
                     Some(Len(h) + 1))

\* ConflictResolver._resolve_delete_conflict
ResolveDeleteConflict(h, operations) ==
    LET i == CHOOSE j \in 1..Len(operations) :
                 /\ h[operations[j]].operation_type = "delete"
                 /\ \A k \in 1..(j - 1) : h[operations[k]].operation_type # "delete"
    IN  Outcome(h, Some(operations[i]))

\* The loop of ConflictResolver._resolve_insert_conflict from index i on:
\* op.position is assigned in place; a None content raises at "+=".
RECURSIVE InsertWalk(_, _, _, _, _)
InsertWalk(h, sorted_ops, i, current_pos, merged_content) ==
    IF i > Len(sorted_ops)
    THEN [heap |-> h, raised |-> FALSE, content |-> merged_content]
    ELSE LET op == sorted_ops[i]
             pos == IF Val(h[op].position) <= current_pos
                    THEN current_pos + 1 ELSE Val(h[op].position)
             h1 == [h EXCEPT ![op].position = Some(pos)]
         IN  IF IsNone(h[op].content)
             THEN [heap |-> h1, raised |-> TRUE, content |-> merged_content]
             ELSE InsertWalk(h1, sorted_ops, i + 1,
                             pos + Len(Val(h[op].content)),
                             merged_content \o Val(h[op].content))

\* ConflictResolver._resolve_insert_conflict: sorted() raises on a None
\* position before anything is assigned.
ResolveInsertConflict(h, operations) ==
    IF \E i \in 1..Len(operations) : IsNone(h[operations[i]].position)
    THEN Outcome(h, None)
    ELSE LET sorted_ops == SortedByKey(operations, [i \in Range(operations) |-> Val(h[i].position)])
             w == InsertWalk(h, sorted_ops, 1, Val(h[sorted_ops[1]].position), "")
         IN  IF w.raised THEN Outcome(w.heap, None)
             ELSE Outcome(Append(w.heap,
                                 Synthetic("insert", h[operations[1]].path, Some(w.content),
                                           w.heap[sorted_ops[1]].position, Len(h) + 1)),
                          Some(Len(h) + 1))

\* resolve_conflict that falls back to the primary operation when its
\* strategy yields nothing
ResolveConflictPrimaryWins(h, conflict) ==
    Outcome(h, Some(conflict.operations[1]))

\* ConflictResolver.resolve_conflict: the strategy of the primary operation
ResolveConflict(h, conflict) ==
    LET primary == h[conflict.operations[1]]
    IN  IF Len(conflict.operations) = 0
        THEN Outcome(h, None)
        ELSE IF Len(conflict.operations) < 2
        THEN Outcome(h, Some(conflict.operations[1]))
        ELSE IF primary.operation_type = "modify"
        THEN ResolveModifyConflict(h, conflict.operations)
        ELSE IF primary.operation_type = "delete"
        THEN ResolveDeleteConflict(h, conflict.operations)
        ELSE IF primary.operation_type = "insert"
        THEN ResolveInsertConflict(h, conflict.operations)
        ELSE Outcome(h, None)

\* resolve_conflict without the assignments to the Conflict
AfterResolveNoFlag(c, r) == c

\* resolve_conflict after the strategy returned r: "if resolution:" sets the
\* flag and the resolution of the Conflict; the early return for fewer than
\* two operations sets nothing.
AfterResolve(c, r) ==
    IF Len(c.operations) < 2 \/ IsNone(r.result) THEN c
    ELSE [c EXCEPT !.resolved = TRUE, !.resolution = r.result]

\* ------------------------------------------------------------ intake ----
\* _validate_operation without the check of the operation type
ValidateOperationAnyKind(op) ==
    /\ op.path \in ExistingPaths
    /\ op.user_id \in users

\* push_operation with the lock check ahead of the validation: an operation on
\* a path locked by somebody else reaches the lock check whatever else is
\* wrong with it
ValidateOperationAfterLock(op) ==
    \/ ~CanModifyFile(op.path, op.user_id)
    \/ /\ op.operation_type \in Kinds
       /\ op.path \in ExistingPaths
       /\ op.user_id \in users

\* SyncManager._validate_operation
ValidateOperation(op) ==
    /\ op.operation_type \in Kinds
    /\ op.path \in ExistingPaths
    /\ op.user_id \in users

\* The SyncOperation a caller builds from an input (websocket_server.py:68-76)
NewOperation(inp, u, ts) ==
    [operation_type |-> inp.operation_type, path |-> inp.path, content |-> inp.content,
     position |-> inp.position, user_id |-> u, timestamp |-> ts, version |-> -1]

\* SyncManager._broadcast_conflict: the event goes to the queues registered
\* under the ids of the users of the conflict.
BroadcastConflict(ch, subs, h, c) ==
    Deliver(ch, QueuesOf(subs, c.users),
            Event("conflict", h[c.operations[1]].path, h[c.operations[1]].user_id,
                  c.operations[1]))

\* asyncio.Queue.full(): never, when maxsize is 0 or less.  put() waits while
\* the queue is full.
Full(q) == maxsize > 0 /\ Len(q) >= maxsize

\* self.conflicts[path].append(conflict)
RecordConflict(cs, p, c) == Put(cs, p, Append(Get(cs, p, <<>>), c))

\* SyncManager.push_operation with SyncManager._broadcast_conflict.  db_ok is
\* what the database call it reaches does (record_operation after the
\* operation was queued, record_conflict before the conflict event is put):
\* "ok" (it returns), "PersistenceError" (it raises) or, for record_operation,
\* "awaiting": the coroutine is suspended in the call and other coroutines
\* run before it goes on.  n bounds the operations explored.
PushOperationWithin(n, u, inp, db) ==
    /\ ~Busy /\ Room
    /\ Len(ops) < n
    /\ LET operation == NewOperation(inp, u, Len(ops) + 1)
           new == Len(ops) + 1
           h1 == Append(ops, operation)
           found == CheckConflict(h1, new, Get(recent_operations, inp.path, <<>>))
           Recorded == db
       IN  IF ~ValidateOperation(operation)
           THEN /\ last' = Call("push_operation", u, inp.path, "ValueError", 0)
                /\ UNCHANGED << opState, chan >>
           ELSE IF ~CanModifyFile(inp.path, u)
           THEN /\ last' = Call("push_operation", u, inp.path, "PermissionError", 0)
                /\ UNCHANGED << opState, chan >>
           ELSE IF IsNone(found)
           THEN /\ ~Full(operation_queue)
                /\ ops' = h1
                /\ operation_queue' = Append(operation_queue, new)
                /\ pending_operations' =
                       [pending_operations EXCEPT ![u] = Append(@, new)]
                /\ last' = Call("push_operation", u, inp.path, Recorded, new)
                /\ UNCHANGED << conflicts, chan >>
           ELSE LET r == ResolveConflict(h1, Val(found))
                    conflict == AfterResolve(Val(found), r)
                IN  /\ ops' = r.heap
                    /\ conflicts' = RecordConflict(conflicts, inp.path, conflict)
                    /\ IF IsNone(r.result)
                       THEN \* _broadcast_conflict, then "return"
                            /\ db # "awaiting"
                            /\ chan' = IF db = "ok"
                                       THEN BroadcastConflict(chan, subscribers, r.heap, conflict)
                                       ELSE chan
                            /\ last' = Call("push_operation", u, inp.path,
                                            IF db = "ok" THEN "blocked" ELSE db, new)
                            /\ UNCHANGED << operation_queue, pending_operations >>
                       ELSE LET res == Val(r.result)
                                author == r.heap[res].user_id
                            IN  /\ ~Full(operation_queue)
                                /\ operation_queue' = Append(operation_queue, res)
                                /\ IF author \in DOMAIN pending_operations
                                   THEN /\ pending_operations' =
                                               [pending_operations EXCEPT ![author] = Append(@, res)]
                                        /\ last' = Call("push_operation", u, inp.path, Recorded, res)
                                   ELSE \* self.pending_operations[operation.user_id]
                                        /\ last' = Call("push_operation", u, inp.path, "KeyError", res)
                                        /\ UNCHANGED pending_operations
                                /\ UNCHANGED chan
    /\ UNCHANGED << syncState, subscribers, loopState, vcState, hung >>
    /\ in_flight' = IF last'.result = "awaiting"
                    THEN in_flight \cup {Call("push_operation", u, inp.path, "awaiting", last'.ref)}
                    ELSE in_flight
    /\ UNCHANGED callState

\* push_operation, explored up to MaxOps operations
PushOperation(u, inp, db_ok) ==
    PushOperationWithin(MaxOps, u, inp, IF db_ok THEN "ok" ELSE "PersistenceError")

\* push_operation going on after record_operation: the call returns or
\* raises, and the push ends with the metrics call or in the handler that
\* re-raises
PushOperationResume(t, db_ok) ==
    /\ ~Busy
    /\ t \in in_flight
    /\ in_flight' = in_flight \ {t}
    /\ last' = Call("push_operation", t.user, t.path,
                    IF db_ok THEN "ok" ELSE "PersistenceError", t.ref)
    /\ UNCHANGED << syncState, opState, subState, loopState, vcState, hung >>
    /\ UNCHANGED callState

\* ------------------------------------------------------- apply loop ----
\* _update_recent_operations with recent.pop() for recent.pop(0): a full
\* window drops the operation just appended
UpdateRecentOperationsPopLast(ro, p, o) ==
    LET recent == Append(Get(ro, p, <<>>), o)
    IN  Put(ro, p, IF Len(recent) > recent_ops_limit
                   THEN SubSeq(recent, 1, Len(recent) - 1) ELSE recent)

\* SyncManager._update_recent_operations
UpdateRecentOperations(ro, p, o) ==
    LET recent == Append(Get(ro, p, <<>>), o)
    IN  Put(ro, p, IF Len(recent) > recent_ops_limit THEN Tail(recent) ELSE recent)

\* _broadcast_operation that stops after the first queue of the path
BroadcastOperationFirst(ch, subs, h, o) ==
    LET qs == QueuesOf(subs, {h[o].path})
    IN  Deliver(ch, { c \in qs : \A d \in qs : c <= d },
                Event("operation", h[o].path, h[o].user_id, o))

\* SyncManager._broadcast_operation
BroadcastOperation(ch, subs, h, o) ==
    Deliver(ch, QueuesOf(subs, {h[o].path}), Event("operation", h[o].path, h[o].user_id, o))

\* the consumer with "if self.running" for "while self.running": it returns
\* after its first pass
AfterIterationOnce(q) == "exited"

\* "while self.running" and "await self.operation_queue.get()" as the consumer
\* meets them after an iteration, without yielding when the queue is not empty
AfterIteration(q) ==
    IF ~running THEN "exited" ELSE IF q = <<>> THEN "at_get" ELSE "busy"

\* The first scheduling of the task created by start()
LoopStart ==
    /\ loop = "top"
    /\ loop' = AfterIteration(operation_queue)
    /\ last' = Call("process_operations", "", "", "started", 0)
    /\ UNCHANGED << syncState, opState, subState, running, vcState, hung >>
    /\ UNCHANGED << callState, in_flight >>

\* self.state.version += 1, with the slip of leaving the counter as it is
NextVersionKept(v) == v

\* self.state.version += 1
NextVersion(v) == v + 1

\* What the consumer has done to the operation o it dequeued when it calls
\* _broadcast_operation: the window holds o (_update_recent_operations comes
\* first), the heap is as it was (the version is assigned after the puts).
AtBroadcast(o) ==
    [recent_operations |-> UpdateRecentOperations(recent_operations, ops[o].path, o),
     ops |-> ops]

\* self.metrics.record(...) and self.metrics.record_error(...): SyncManager
\* calls them after every step, and MetricsTracker (monitoring/metrics.py)
\* defines neither.  The specification has metrics updated as a side effect of
\* a push and of an apply: the call notes the metric and returns, and nothing
\* the manager reads depends on it.  The calls of push_operation, of
\* check_conflict and of the version-control manager are taken the same way.
MetricsRecorded == TRUE

\* One iteration of SyncManager._process_operations.  Nothing in the try block
\* before the metrics call can raise (_apply_operation is "pass" in every
\* branch, the puts are on unbounded queues); were the metrics call and then
\* the handler's record_error to raise, the exception would leave the while
\* loop and end the task.
ApplyOperation ==
    /\ loop \in {"at_get", "busy"}
    /\ operation_queue # <<>>
    /\ Room
    /\ LET o == Head(operation_queue)
       IN  /\ operation_queue' = Tail(operation_queue)
           /\ recent_operations' = AtBroadcast(o).recent_operations
           /\ chan' = BroadcastOperation(chan, subscribers, AtBroadcast(o).ops, o)
           /\ version' = NextVersion(version)
           /\ ops' = [ops EXCEPT ![o].version = NextVersion(version)]
           /\ loop' = IF MetricsRecorded THEN AfterIteration(Tail(operation_queue))
                                         ELSE "exited"
           /\ last' = Call("process_operations", ops[o].user_id, ops[o].path, "applied", o)
    /\ UNCHANGED << users, locked_files, pending_operations, conflicts, subscribers,
                    running, vcState, hung >>
    /\ UNCHANGED << callState, in_flight >>

\* ------------------------------------------- the resolver on its own ----
\* check_conflict and resolve_conflict are public and take any operations:
\* the tests of the repository build the operations, the recent list and the
\* Conflict themselves (tests/test_conflict_resolver.py).
MaxRecent == 2

\* (operation_type, path, content, position) of the operations handed over.
ResolverInputs ==
    { [operation_type |-> "modify", path |-> p, content |-> c, position |-> None] :
          p \in {"f"}, c \in {Some("x"), Some(""), None} }
    \cup { [operation_type |-> "insert", path |-> "f", content |-> Some(c), position |-> Some(n)] :
          c \in {"a"}, n \in {5, 6, 7} }
    \cup { [operation_type |-> "insert", path |-> "f", content |-> Some("bc"), position |-> Some(5)],
           [operation_type |-> "insert", path |-> "f", content |-> None,       position |-> Some(6)],
           [operation_type |-> "insert", path |-> "f", content |-> Some("a"),  position |-> None],
           [operation_type |-> "delete", path |-> "f", content |-> None,       position |-> Some(5)],
           [operation_type |-> "modify", path |-> "g", content |-> Some("x"),  position |-> None],
           [operation_type |-> "delete", path |-> "g", content |-> None,       position |-> Some(5)],
           [operation_type |-> "insert", path |-> "g", content |-> Some("a"),  position |-> Some(5)] }

Reverse(s) == [i \in 1..Len(s) |-> s[Len(s) + 1 - i]]

\* An operation that was applied earlier is put on the recent list, which
\* holds up to n operations.
GivenOperationWithin(n, u, inp) ==
    /\ last.call \in {"init", "given"}
    /\ Len(recent_ops) < n
    /\ LET o == Len(ops) + 1
       IN  /\ ops' = Append(ops, [NewOperation(inp, u, o) EXCEPT !.version = o])
           /\ recent_ops' = Append(recent_ops, o)
           /\ last' = Call("given", u, inp.path, "ok", o)
    /\ UNCHANGED << syncState, operation_queue, pending_operations, conflicts, subState,
                    loopState, vcState, hung, current_conflict >>
    /\ UNCHANGED in_flight

\* The recent list, explored up to MaxRecent operations
GivenOperation(u, inp) == GivenOperationWithin(MaxRecent, u, inp)

\* Conflict(operations=[...], users=[...]) built directly from the operations
\* at hand, newest first or oldest first.
GivenConflict(newest_first) ==
    /\ last.call = "given"
    /\ LET operations == IF newest_first THEN Reverse(recent_ops) ELSE recent_ops
       IN  /\ current_conflict' =
                  Some(Conflict(operations, { ops[operations[i]].user_id : i \in 1..Len(operations) }))
           /\ last' = Call("given_conflict", "", ops[operations[1]].path, "ok", 0)
    /\ UNCHANGED << syncState, opState, subState, loopState, vcState, hung, recent_ops >>
    /\ UNCHANGED in_flight

\* ConflictResolver.check_conflict(operation, recent_ops)
CheckConflictCall(u, inp) ==
    /\ last.call \in {"init", "given"}
    /\ LET new == Len(ops) + 1
           h1 == Append(ops, NewOperation(inp, u, new))
           found == CheckConflict(h1, new, recent_ops)
       IN  /\ ops' = h1
           /\ conflicts' = IF IsNone(found) THEN conflicts
                           ELSE RecordConflict(conflicts, inp.path, Val(found))
           /\ current_conflict' = found
           /\ last' = Call("check_conflict", u, inp.path,
                           IF IsNone(found) THEN "none" ELSE "conflict", new)
    /\ UNCHANGED << syncState, operation_queue, pending_operations, subState, loopState,
                    vcState, hung, recent_ops >>
    /\ UNCHANGED in_flight

\* ConflictResolver.resolve_conflict(conflict): the Conflict is the object
\* check_conflict appended to self.conflicts, or the one built directly.
ResolveConflictCall ==
    /\ last.call \in {"check_conflict", "given_conflict"}
    /\ ~IsNone(current_conflict)
    /\ LET c == Val(current_conflict)
           r == ResolveConflict(ops, c)
           p == last.path
       IN  /\ ops' = r.heap
           /\ current_conflict' = Some(AfterResolve(c, r))
           /\ conflicts' = IF last.call = "check_conflict"
                           THEN [conflicts EXCEPT ![p][Len(conflicts[p])] = AfterResolve(c, r)]
                           ELSE conflicts
           /\ last' = Call("resolve_conflict", "", p,
                           IF IsNone(r.result) THEN "none" ELSE "resolution",
                           IF IsNone(r.result) THEN 0 ELSE Val(r.result))
    /\ UNCHANGED << syncState, operation_queue, pending_operations, subState, loopState,
                    vcState, hung, recent_ops >>
    /\ UNCHANGED in_flight

\* ------------------------------------------------------ specification ----
\* The intake pipeline and the apply loop: two users connect, lock and unlock
\* "f" and push modify operations (with and without content), an operation of
\* an unknown kind and one on a missing path; the consumer applies.
CoreInputs ==
    { i \in OpInputs : i.operation_type \in {"modify", "rename"} /\ i.path # "g" }

Next ==
    \/ \E u \in Users : ConnectUser(u, TRUE)
    \/ \E p \in {"f"}, u \in Users : AcquireLock(p, u)
    \/ \E p \in {"f"}, u \in Users : ReleaseLock(p, u)
    \/ \E u \in Users, inp \in CoreInputs, ok \in BOOLEAN : PushOperation(u, inp, ok)
    \/ Start(TRUE)
    \/ LoopStart
    \/ ApplyOperation

Spec == Init /\ [][Next]_vars

\* Sessions, locks and the flush at disconnection: users connect (the checkout
\* of their branch succeeding or not), lock and unlock "f" and "g", push a
\* modify operation on "g" that stays pending, and disconnect (staging and
\* commit succeeding or not).
SessionInputs == { i \in OpInputs : i.path = "g" }

NextSession ==
    \/ \E u \in Users, ok \in BOOLEAN : ConnectUser(u, ok)
    \/ \E u \in Users, s \in BOOLEAN, c \in BOOLEAN : DisconnectUser(u, s, c)
    \/ \E p \in {"f", "g"}, u \in Users : AcquireLock(p, u)
    \/ \E p \in {"f", "g"}, u \in Users : ReleaseLock(p, u)
    \/ \E u \in Users, inp \in SessionInputs : PushOperation(u, inp, TRUE)

SpecSession == Init /\ [][NextSession]_vars

\* Insert operations: two users push inserts at neighbouring positions, one of
\* them without content; the consumer applies.
InsertInputs == { i \in OpInputs : i.operation_type = "insert" }

NextInsert ==
    \/ \E u \in Users : ConnectUser(u, TRUE)
    \/ \E u \in Users, inp \in InsertInputs, ok \in BOOLEAN : PushOperation(u, inp, ok)
    \/ Start(TRUE)
    \/ LoopStart
    \/ ApplyOperation

SpecInsert == Init /\ [][NextInsert]_vars

\* Fan-out: users connect, open channels on "f" and push modify
\* operations on both paths; the consumer applies and broadcasts.
FanoutInputs == { i \in OpInputs : i.operation_type = "modify" /\ i.path \in ExistingPaths
                                    /\ i.content # Some("") }

NextFanout ==
    \/ \E u \in Users : ConnectUser(u, TRUE)
    \/ \E u \in Users : Subscribe(u, "f")
    \/ \E u \in Users, inp \in FanoutInputs : PushOperation(u, inp, TRUE)
    \/ Start(TRUE)
    \/ LoopStart
    \/ ApplyOperation

SpecFanout == Init /\ [][NextFanout]_vars

\* The resolver on its own: up to MaxRecent operations are at hand; a new
\* operation is checked against them, or a Conflict is built from them; the
\* Conflict is resolved.
NextResolver ==
    \/ \E u \in Users, inp \in ResolverInputs : GivenOperation(u, inp)
    \/ \E b \in BOOLEAN : GivenConflict(b)
    \/ \E u \in Users, inp \in ResolverInputs : CheckConflictCall(u, inp)
    \/ ResolveConflictCall

SpecResolver == Init /\ [][NextResolver]_vars

\* Resolution failures: two users push inserts with and without content, a
\* delete without a position and a modify without content; the consumer
\* applies.
StrategyInputs ==
    { [operation_type |-> "insert", path |-> "f", content |-> Some("a"), position |-> Some(5)],
      [operation_type |-> "insert", path |-> "f", content |-> None,      position |-> Some(6)],
      [operation_type |-> "delete", path |-> "f", content |-> None,      position |-> None],
      [operation_type |-> "modify", path |-> "f", content |-> None,      position |-> None] }

NextStrategy ==
    \/ \E u \in Users : ConnectUser(u, TRUE)
    \/ \E u \in Users, inp \in StrategyInputs, ok \in BOOLEAN : PushOperation(u, inp, ok)
    \/ Start(TRUE)
    \/ LoopStart
    \/ ApplyOperation

SpecStrategy == Init /\ [][NextStrategy]_vars

\* The consumer under fair scheduling: users connect and push modify
\* operations on both paths, the coordinator is started (init_db returning or
\* raising) and stopped; the event loop runs the consumer task whenever it is
\* ready (asyncio schedules every ready task), so its first scheduling and its
\* iterations are weakly fair.
LiveInputs == { i \in OpInputs : i.operation_type = "modify" /\ i.path \in ExistingPaths
                                  /\ i.content # Some("") }

NextLive ==
    \/ \E u \in Users : ConnectUser(u, TRUE)
    \/ \E u \in Users, inp \in LiveInputs : PushOperation(u, inp, TRUE)
    \/ \E ok \in BOOLEAN : Start(ok)
    \/ Stop
    \/ LoopStart
    \/ ApplyOperation

SpecLive == Init /\ [][NextLive]_vars /\ WF_vars(LoopStart) /\ WF_vars(ApplyOperation)

\* A window that fills: one user pushes modify operations on both paths, more
\* than a window holds; the consumer applies.
MaxWindowOps == 11

WindowInputs == { i \in OpInputs : i.operation_type = "modify" /\ i.path \in ExistingPaths
                                    /\ i.content # Some("") }

NextWindow ==
    \/ ConnectUser("A", TRUE)
    \/ \E inp \in WindowInputs : PushOperationWithin(MaxWindowOps, "A", inp, "ok")
    \/ Start(TRUE)
    \/ LoopStart
    \/ ApplyOperation

SpecWindow == Init /\ [][NextWindow]_vars

\* Locks and their events: channels are opened on "f" and closed again, also
\* twice or under a key nobody subscribed to; users lock and unlock both paths.
NextLocks ==
    \/ Subscribe("A", "f")
    \/ \E k \in ExistingPaths, q \in 1..MaxChan : Unsubscribe(k, q)
    \/ \E p \in ExistingPaths, u \in Users : AcquireLock(p, u)
    \/ \E p \in ExistingPaths, u \in Users : ReleaseLock(p, u)

SpecLocks == Init /\ [][NextLocks]_vars

\* Locks over sessions: users connect and leave, lock and unlock "f", while
\* channels are open on "f".
NextLockEvents ==
    \/ \E u \in Users : ConnectUser(u, TRUE)
    \/ \E u \in Users : DisconnectUser(u, TRUE, TRUE)
    \/ \E u \in Users : Subscribe(u, "f")
    \/ \E u \in Users : AcquireLock("f", u)
    \/ \E u \in Users : ReleaseLock("f", u)

SpecLockEvents == Init /\ [][NextLockEvents]_vars

\* Inserts without a position: users push inserts with and without a position
\* and deletes on "f"; the consumer applies.
NoPositionInputs ==
    { [operation_type |-> "insert", path |-> "f", content |-> Some("a"), position |-> Some(5)],
      [operation_type |-> "insert", path |-> "f", content |-> Some("a"), position |-> None],
      [operation_type |-> "delete", path |-> "f", content |-> None,      position |-> Some(5)] }

NextNoPosition ==
    \/ \E u \in Users : ConnectUser(u, TRUE)
    \/ \E u \in Users, inp \in NoPositionInputs, ok \in BOOLEAN : PushOperation(u, inp, ok)
    \/ Start(TRUE)
    \/ LoopStart
    \/ ApplyOperation

SpecNoPosition == Init /\ [][NextNoPosition]_vars

\* Merging versions: up to MaxVersions modify operations on "f" whose contents
\* share some lines and differ in others, or are empty, are at hand; a
\* Conflict is built from them and resolved.
MaxVersions == 3

MergeInputs ==
    { [operation_type |-> "modify", path |-> "f", content |-> Some(c), position |-> None] :
          c \in {"ab", "bc", "b", ""} }

NextMerge ==
    \/ \E u \in Users, inp \in MergeInputs : GivenOperationWithin(MaxVersions, u, inp)
    \/ \E b \in BOOLEAN : GivenConflict(b)
    \/ ResolveConflictCall

SpecMerge == Init /\ [][NextMerge]_vars

\* Notification of conflicts: users connect, open channels on "f" and push
\* inserts at neighbouring positions, one of them without content, so that a
\* conflict stays unresolved; the consumer applies.
NextNotify ==
    \/ \E u \in Users : ConnectUser(u, TRUE)
    \/ \E u \in Users : Subscribe(u, "f")
    \/ \E u \in Users, inp \in InsertInputs : PushOperation(u, inp, TRUE)
    \/ Start(TRUE)
    \/ LoopStart
    \/ ApplyOperation

SpecNotify == Init /\ [][NextNotify]_vars

\* Disconnection while pushes are in flight: users connect and disconnect
\* (staging and commit succeeding or not) and push inserts on "f"; a push may
\* be suspended in record_operation and go on, the call returning or raising,
\* after other coroutines ran; the consumer applies.
RaceInputs == { i \in InsertInputs : ~IsNone(i.content) }

NextRace ==
    \/ \E u \in Users : ConnectUser(u, TRUE)
    \/ \E u \in Users, s \in BOOLEAN, c \in BOOLEAN : DisconnectUser(u, s, c)
    \/ \E u \in Users, inp \in RaceInputs, db \in {"ok", "awaiting"} :
           PushOperationWithin(MaxOps, u, inp, db)
    \/ \E t \in in_flight, ok \in BOOLEAN : PushOperationResume(t, ok)
    \/ Start(TRUE)
    \/ LoopStart
    \/ ApplyOperation

SpecRace == Init /\ [][NextRace]_vars

\* ------------------------------------------------------------ claims ----
Applied == { i \in DOMAIN ops : ops[i].version # -1 }
Window(p) == Get(recent_operations, p, <<>>)

C1_Counted ==
    /\ version = Cardinality(Applied)
    /\ { ops[i].version : i \in Applied } = 1..version
    /\ \A p \in DOMAIN recent_operations : \A i, j \in 1..Len(Window(p)) :
           i < j => ops[Window(p)[i]].version < ops[Window(p)[j]].version

C1_Step ==
    /\ version' >= version
    /\ IF last'.call = "process_operations" /\ last'.result = "applied"
       THEN /\ ops[last'.ref].version = -1
            /\ version' = version + 1
            /\ ops'[last'.ref].version = version + 1
            /\ \A i \in DOMAIN ops \ {last'.ref} : ops'[i].version = ops[i].version
       ELSE /\ version' = version
            /\ \A i \in DOMAIN ops : ops'[i].version = ops[i].version

\* C1: the versions the apply loop assigns are 1, 2, 3, ... in apply order.  The
\* counter starts at 0 and counts the applied operations; the versions held by
\* the applied operations are exactly 1..version, each once, increasing along
\* every window; an iteration of the loop gives the operation it dequeued the
\* previous counter plus one; no other step (a rejected, blocked or queued
\* push, a lock call, a connection) changes the counter or any version.
C1_VersionsGapFree == (version = 0) /\ []C1_Counted /\ [][C1_Step]_vars

\* Two operations of different users were applied, after a push was blocked.
C1_Witness ==
    /\ version >= 2
    /\ \E i, j \in Applied : ops[i].user_id # ops[j].user_id
    /\ \E i \in DOMAIN ops : ops[i].version = -1 /\ i \notin Range(operation_queue)

LockHolders(p) == IF p \in DOMAIN locked_files THEN {locked_files[p]} ELSE {}

C2_Step ==
    /\ last'.call = "acquire_lock" =>
          /\ last'.result = "true" <=> last'.path \notin DOMAIN locked_files
          /\ last'.result = "true" => locked_files' = Put(locked_files, last'.path, last'.user)
          /\ last'.result = "false" => locked_files' = locked_files
    /\ (last'.call = "release_lock" /\ last'.result = "true") =>
          last'.path \notin DOMAIN locked_files'

\* C2: acquire_lock(p, u) returns true exactly when p has no holder at the
\* call; it then records u as the holder.  When p is held, by another user or
\* by u itself, it returns false and the lock table stays as it is.  After a
\* release_lock that returned true p has no holder, so the next acquire_lock
\* on p returns true.
C2_AcquireExclusive == [][C2_Step]_vars

\* B was refused the lock on "f" that A holds.
C2_Witness ==
    /\ last = Call("acquire_lock", "B", "f", "false", 0)
    /\ LockHolders("f") = {"A"}

C3_Step ==
    (last'.call = "disconnect_user" /\ last'.result = "ok") =>
        /\ \A p \in DOMAIN locked_files' : locked_files'[p] # last'.user
        /\ \A p \in DOMAIN locked_files :
               locked_files[p] # last'.user =>
                   p \in DOMAIN locked_files' /\ locked_files'[p] = locked_files[p]
        /\ DOMAIN locked_files' \subseteq DOMAIN locked_files

\* C3: when disconnect_user(u) returns, the lock table holds no path whose
\* holder is u, and every lock of another user is as it was (none added, none
\* removed, none given to somebody else).
C3_DisconnectReleasesLocks == [][C3_Step]_vars

\* A disconnection released the lock of the user who left and another user's
\* lock is still in the table.
C3_Witness ==
    \E u \in Users :
        /\ last.call = "disconnect_user" /\ last.user = u /\ last.result = "ok"
        /\ last.ref = 1
        /\ locked_files # EmptyDict

C4_Step ==
    \A u \in Users, inp \in OpInputs, ok \in BOOLEAN :
        ( /\ last'.call = "push_operation" /\ last'.user = u /\ last'.path = inp.path
          /\ inp.operation_type \in Kinds /\ inp.path \in ExistingPaths /\ u \in users
          /\ inp.path \in DOMAIN locked_files /\ locked_files[inp.path] # u
          /\ PushOperation(u, inp, ok) )
        => /\ last'.result = "PermissionError"
           /\ UNCHANGED << ops, operation_queue, pending_operations, conflicts,
                           version, recent_operations, chan >>

C5_Step ==
    \A u \in Users, inp \in OpInputs, ok \in BOOLEAN :
        ( /\ last'.call = "push_operation" /\ last'.user = u /\ last'.path = inp.path
          /\ \/ inp.operation_type \notin Kinds
             \/ inp.path \notin ExistingPaths
             \/ u \notin users
          /\ PushOperation(u, inp, ok) )
        => /\ last'.result = "ValueError"
           /\ UNCHANGED << ops, operation_queue, pending_operations, conflicts,
                           version, recent_operations, locked_files, chan >>

ApplyOrder == [v \in 1..version |-> CHOOSE o \in DOMAIN ops : ops[o].version = v]
IsOnPath(p, o) == ops[o].path = p
AppliedOn(p) == SelectSeq(ApplyOrder, LAMBDA o : IsOnPath(p, o))
IsOperationEvent(p, e) == e.type = "operation" /\ e.path = p
\* The operations on p delivered to channel c, in delivery order.
Seen(c, p) ==
    LET es == SelectSeq(chan[c], LAMBDA e : IsOperationEvent(p, e))
    IN  [i \in 1..Len(es) |-> es[i].op]
IsSuffix(s, t) == Len(s) <= Len(t) /\ s = SubSeq(t, Len(t) - Len(s) + 1, Len(t))

C6_Inv ==
    \A p \in ExistingPaths :
        \A c \in Get(subscribers, p, {}) :
            /\ IsSuffix(Seen(c, p), AppliedOn(p))
            /\ \A i \in 1..Len(Seen(c, p)) - 1 :
                   ops[Seen(c, p)[i]].version < ops[Seen(c, p)[i + 1]].version
            /\ \A d \in Get(subscribers, p, {}) :
                   IsSuffix(Seen(c, p), Seen(d, p)) \/ IsSuffix(Seen(d, p), Seen(c, p))

C6_Step ==
    \A p \in ExistingPaths :
        (last'.call = "process_operations" /\ last'.result = "applied" /\ last'.path = p)
        => \A c \in Get(subscribers, p, {}) : Seen(c, p)' = Append(Seen(c, p), last'.ref)

\* C6: each operation applied on p is delivered, when it is applied, to every
\* channel subscribed to p; so a channel holds the operations applied on p since
\* it subscribed, in apply order (increasing version), and two channels
\* subscribed to p hold the same sequence from the later subscription on.
C6_SameOrder == []C6_Inv /\ [][C6_Step]_vars

C6_Witness ==
    \E c, d \in Get(subscribers, "f", {}) :
        /\ c # d
        /\ Len(Seen(c, "f")) >= 2
        /\ Seen(c, "f") = Seen(d, "f")
        /\ ops[Seen(c, "f")[1]].user_id # ops[Seen(c, "f")[2]].user_id

\* The operations of p's window, as values.
WindowOps(h, ro, p) == [i \in 1..Len(Get(ro, p, <<>>)) |-> h[Get(ro, p, <<>>)[i]]]

C7_PushStep ==
    \A a, b \in Users, inp \in OpInputs :
        ( /\ last'.call = "push_operation" /\ last'.user = b /\ last'.path = "f"
          /\ a # b /\ {a, b} \subseteq users
          /\ inp.operation_type = "modify" /\ inp.path = "f"
          /\ ~IsNone(inp.content) /\ inp.content # Some("")
          /\ "f" \notin DOMAIN locked_files
          /\ version = 1 /\ operation_queue = <<>>
          /\ Len(Window("f")) = 1
          /\ ops[Window("f")[1]].user_id = a
          /\ ops[Window("f")[1]].operation_type = "modify"
          /\ ops[Window("f")[1]].version = 1
          /\ PushOperation(b, inp, TRUE) )
        => /\ last'.result = "ok"
           /\ Len(operation_queue') = 1
           /\ ops'[operation_queue'[1]].user_id = SYSTEM
           /\ ops'[operation_queue'[1]].operation_type = "modify"
           /\ conflicts'["f"][Len(conflicts'["f"])].resolved

C7_ApplyStep ==
    ( /\ last'.call = "process_operations" /\ last'.result = "applied"
      /\ ops[last'.ref].user_id = SYSTEM /\ ops[last'.ref].path = "f"
      /\ version = 1 /\ Len(Window("f")) = 1 )
    => /\ ops'[last'.ref].version = 2
       /\ recent_operations'["f"] = << Window("f")[1], last'.ref >>

\* C7: with A and B connected and "f" unlocked, A's modify is applied at
\* version 1 and is alone in f's window; B then pushes a modify with content:
\* the conflict is found and resolved, B's push returns without error and a
\* modify of "system" is queued; applied, it gets version 2 and f's window
\* holds A's operation and the synthetic one.
C7_ModifyConflictEndToEnd == [][C7_PushStep /\ C7_ApplyStep]_vars

C8_Step ==
    \A p \in ExistingPaths :
        ( /\ last'.call = "push_operation" /\ last'.path = p
          /\ Get(conflicts', p, <<>>) # Get(conflicts, p, <<>>)
          /\ ~conflicts'[p][Len(conflicts'[p])].resolved )
        => /\ UNCHANGED << operation_queue, pending_operations, version, recent_operations >>
           /\ \A q \in ExistingPaths :
                  WindowOps(ops', recent_operations', q) = WindowOps(ops, recent_operations, q)
           /\ last'.result = "blocked" =>
                  chan' = BroadcastConflict(chan, subscribers, ops',
                                            conflicts'[p][Len(conflicts'[p])])

\* C8: a push whose conflict no strategy resolves ends blocked: nothing is
\* queued or added to a pending list, the version counter and every window
\* (the operations it holds, field by field) are as before, and the conflict
\* event is put on the queues of the users of the conflict.
C8_UnresolvedIsDropped == [][C8_Step]_vars

C9_Step ==
    (last'.call = "disconnect_user" /\ last'.user \in users) =>
        /\ last'.result = "ok"
        /\ last'.user \notin users'
        /\ \A p \in DOMAIN locked_files' : locked_files'[p] # last'.user

\* C9: disconnect_user(u) of a connected user returns, whatever staging and
\* commit do and whichever branch is active, and on return u is not in users
\* and holds no lock.
C9_DisconnectReturns == [][C9_Step]_vars

C10_Step ==
    (last'.call = "connect_user" /\ last'.user \in users) =>
        /\ last'.result = "AlreadyConnected"
        /\ UNCHANGED << users, pending_operations, subscribers >>

\* C10: connect_user(u) for a user already in users fails with AlreadyConnected
\* and changes nothing: u's pending list and subscriber set are kept.
C10_ConnectTwiceRejected == [][C10_Step]_vars

C11_Step ==
    (last'.call = "push_operation" /\ last'.result = "PersistenceError")
    => /\ UNCHANGED << operation_queue, pending_operations >>
       /\ last'.ref \notin Range(operation_queue')

\* C11: a push that fails with a persistence error has queued nothing and
\* added nothing to a pending list (the operation is recorded before it is
\* queued), so it is never applied and consumes no version.
C11_PersistBeforeEnqueue == [][C11_Step]_vars

\* ---- the resolver on its own: what a call was given and what it returned
CheckReturned == last.call = "check_conflict"
NewOp == ops[last.ref]
\* The recent operations in the Conflict check_conflict returned.
Reported ==
    IF CheckReturned /\ ~IsNone(current_conflict)
    THEN { Val(current_conflict).operations[i] : i \in 2..Len(Val(current_conflict).operations) }
    ELSE {}
SamePathOtherUser(a, b) == a.path = b.path /\ a.user_id # b.user_id
BothKind(a, b, k) == a.operation_type = k /\ b.operation_type = k
HavePositions(a, b) == ~IsNone(a.position) /\ ~IsNone(b.position)
Distance(a, b) == Abs(Val(a.position) - Val(b.position))

\* C12: check_conflict reports no recent operation that is on another path
\* than the new operation or by the same user, whatever the kinds and
\* positions; when every recent operation is such, it returns None.
C12_OnlySamePathOtherUser ==
    CheckReturned =>
        /\ \A w \in Range(recent_ops) : ~SamePathOtherUser(NewOp, ops[w]) => w \notin Reported
        /\ (\A w \in Range(recent_ops) : ~SamePathOtherUser(NewOp, ops[w]))
               => last.result = "none"

C12_Witness ==
    /\ CheckReturned /\ last.result = "conflict"
    /\ \E v, w \in Range(recent_ops) :
           /\ ops[v].path # NewOp.path /\ ops[v].operation_type = "delete"
           /\ ops[w].user_id # NewOp.user_id /\ w \in Reported

C13_Inv ==
    CheckReturned =>
        \A w \in Range(recent_ops) :
            ( /\ SamePathOtherUser(NewOp, ops[w])
              /\ "delete" \in {NewOp.operation_type, ops[w].operation_type} )
            => (last.result = "conflict" /\ w \in Reported)

C13_Step ==
    ( /\ last'.call = "resolve_conflict"
      /\ Len(Val(current_conflict).operations) >= 2
      /\ ops[Val(current_conflict).operations[1]].operation_type = "delete" )
    => /\ last'.result = "resolution"
       /\ last'.ref = Val(current_conflict).operations[1]
       /\ ops' = ops

\* C13: a new operation and a recent operation on the same path by different
\* users, one of them a delete, are reported as a conflict by check_conflict;
\* and resolving a conflict whose primary operation is a delete returns the
\* first delete of the conflict, no field of it changed.
C13_DeleteConflictsAndWins == []C13_Inv /\ [][C13_Step]_vars

VerdictsShow == Len(recent_ops) = 1 \/ last.result = "conflict"

C15_Within2 ==
    CheckReturned =>
        \A w \in Range(recent_ops) :
            /\ ( /\ SamePathOtherUser(NewOp, ops[w]) /\ BothKind(NewOp, ops[w], "insert")
                 /\ HavePositions(NewOp, ops[w]) /\ VerdictsShow )
               => (w \in Reported <=> Distance(NewOp, ops[w]) <= 2)
            /\ {NewOp.operation_type, ops[w].operation_type} = {"insert", "modify"}
               => w \notin Reported

\* C15 as stated: two inserts on one path by different users conflict if and
\* only if their positions are at most 2 apart; an insert and a modify never
\* conflict.
C15_InsertWithinTwo == []C15_Within2

C15_Below2 ==
    CheckReturned =>
        \A w \in Range(recent_ops) :
            /\ ( /\ SamePathOtherUser(NewOp, ops[w]) /\ BothKind(NewOp, ops[w], "insert")
                 /\ HavePositions(NewOp, ops[w]) )
               => /\ w \in Reported => Distance(NewOp, ops[w]) < 2
                  /\ VerdictsShow => (w \in Reported <=> Distance(NewOp, ops[w]) < 2)
            /\ {NewOp.operation_type, ops[w].operation_type} = {"insert", "modify"}
               => w \notin Reported

\* C15, amended: two inserts on one path by different users, both with a
\* position, conflict if and only if their positions are less than 2 apart
\* (equal or adjacent); inserts exactly 2 apart do not conflict; an insert and
\* a modify never conflict.
C15_InsertBelowTwo == []C15_Below2

C15_Witness ==
    /\ CheckReturned /\ last.result = "none"
    /\ Len(recent_ops) = 1
    /\ SamePathOtherUser(NewOp, ops[recent_ops[1]])
    /\ BothKind(NewOp, ops[recent_ops[1]], "insert")
    /\ HavePositions(NewOp, ops[recent_ops[1]])
    /\ Distance(NewOp, ops[recent_ops[1]]) = 2

\* The conditions under which two operations conflict, as the specification
\* lists them.
Conflicting(a, b) ==
    /\ SamePathOtherUser(a, b)
    /\ \/ BothKind(a, b, "modify")
       \/ "delete" \in {a.operation_type, b.operation_type}
       \/ BothKind(a, b, "insert") /\ HavePositions(a, b) /\ Distance(a, b) < 2
IsConflicting(w) == Conflicting(NewOp, ops[w])
CountConflicts(cs) ==
    LET n(p) == IF p \in DOMAIN cs THEN Len(cs[p]) ELSE 0
    IN  n("f") + n("g")

C16_Inv ==
    (CheckReturned /\ last.result = "conflict") =>
        LET c == Val(current_conflict)
        IN  /\ c.operations = <<last.ref>> \o SelectSeq(recent_ops, IsConflicting)
            /\ c.users = { ops[c.operations[i]].user_id : i \in 1..Len(c.operations) }
            /\ Len(c.operations) >= 2
            /\ conflicts[last.path][Len(conflicts[last.path])] = c

C16_Step ==
    last'.call = "check_conflict" =>
        CountConflicts(conflicts') =
            CountConflicts(conflicts) + (IF last'.result = "conflict" THEN 1 ELSE 0)

\* C16: one check_conflict call records at most one Conflict; the Conflict
\* holds the new operation at index 0, then every recent operation that
\* conflicts with it, in list order, and no other; its users are the set of
\* these operations' user ids; it has at least two operations.
C16_SingleConflict == []C16_Inv /\ [][C16_Step]_vars

C16_Witness ==
    /\ CheckReturned /\ last.result = "conflict"
    /\ Len(Val(current_conflict).operations) = 3
    /\ Cardinality(Val(current_conflict).users) = 2

\* ---- the resolver on its own: the Conflict handed to resolve_conflict
Resolving == last'.call = "resolve_conflict"
ConflictOps == Val(current_conflict).operations
\* Two or more operations of kind k, all with content and, for inserts, a position.
CompleteConflict(k) ==
    /\ Len(ConflictOps) >= 2
    /\ \A i \in 1..Len(ConflictOps) :
           /\ ops[ConflictOps[i]].operation_type = k
           /\ ~IsNone(ops[ConflictOps[i]].content)
           /\ k = "insert" => ~IsNone(ops[ConflictOps[i]].position)
LowestPosition ==
    CHOOSE n \in { Val(ops[ConflictOps[i]].position) : i \in 1..Len(ConflictOps) } :
        \A j \in 1..Len(ConflictOps) : n <= Val(ops[ConflictOps[j]].position)
RECURSIVE Concat(_, _)
Concat(h, s) == IF s = <<>> THEN "" ELSE Val(h[Head(s)].content) \o Concat(h, Tail(s))
\* By position, and for equal positions the earlier operation first.
PositionThenAge ==
    SortedByKey(ConflictOps,
                [o \in Range(ConflictOps) |-> Val(ops[o].position) * 100 + ops[o].timestamp])

C17_Step ==
    (Resolving /\ CompleteConflict("insert")) =>
        /\ last'.result = "resolution"
        /\ ops'[last'.ref].operation_type = "insert"
        /\ ops'[last'.ref].user_id = SYSTEM
        /\ ops'[last'.ref].position = Some(LowestPosition)

\* C17: resolving a conflict of inserts returns one synthetic insert whose
\* position is the lowest position the inserts had before the resolution
\* (two inserts at 5 give 5).
C17_InsertAtLowestPosition == [][C17_Step]_vars

C18_Step ==
    (Resolving /\ CompleteConflict("insert")) =>
        /\ last'.result = "resolution"
        /\ ops'[last'.ref].content = Some(Concat(ops, PositionThenAge))

\* C18: the content of the synthetic insert is the contents of the
\* conflicting inserts, each once, in ascending order of position, and for
\* equal positions the earlier operation's content first.
C18_InsertContentInOrder == [][C18_Step]_vars

C19_Step ==
    /\ (Resolving /\ CompleteConflict("modify")
        /\ \A i \in 1..Len(ConflictOps) : ops[ConflictOps[i]].content # Some(""))
       => /\ last'.result = "resolution"
          /\ last'.ref = Len(ops) + 1
          /\ ops' = Append(ops, ops'[last'.ref])
          /\ ops'[last'.ref].operation_type = "modify"
          /\ ops'[last'.ref].path = ops[ConflictOps[1]].path
          /\ ops'[last'.ref].user_id = SYSTEM
          /\ ops'[last'.ref].version = -1
          /\ ~IsNone(ops'[last'.ref].content)
          /\ Val(current_conflict').resolved
          /\ Val(current_conflict').resolution = Some(last'.ref)
    /\ (Resolving /\ Len(ConflictOps) >= 2 /\ last'.result = "none")
       => /\ ~Val(current_conflict').resolved
          /\ IsNone(Val(current_conflict').resolution)

\* C19: resolving a conflict of two or more modifies with non-empty contents
\* returns a new modify with the primary's path, user "system", version -1
\* and a content, and the Conflict gets resolved = true and that operation as
\* its resolution; when the strategy yields nothing the Conflict keeps
\* resolved = false and no resolution.
C19_ModifyResolution == [][C19_Step]_vars

C19_Witness ==
    /\ last.call = "resolve_conflict" /\ last.result = "resolution"
    /\ ops[last.ref].operation_type = "modify" /\ ops[last.ref].user_id = SYSTEM
    /\ Len(Val(current_conflict).operations) >= 2
    /\ \A i \in 1..Len(Val(current_conflict).operations) :
           ops[Val(current_conflict).operations[i]].operation_type = "modify"
    /\ Val(current_conflict).resolved

\* The Conflict a push recorded in this step, with an operation that makes
\* its strategy raise: an insert or modify as primary and a null content or
\* position among the operations.
StrategyRaised(p) ==
    /\ Get(conflicts', p, <<>>) # Get(conflicts, p, <<>>)
    /\ LET c == conflicts'[p][Len(conflicts'[p])]
       IN  /\ ops'[c.operations[1]].operation_type \in {"insert", "modify"}
           /\ \E i \in 1..Len(c.operations) :
                  \/ IsNone(ops'[c.operations[i]].content)
                  \/ /\ ops'[c.operations[1]].operation_type = "insert"
                     /\ IsNone(ops'[c.operations[i]].position)

C20_Step ==
    \A u \in Users, inp \in StrategyInputs :
        ( /\ last'.call = "push_operation" /\ last'.user = u /\ last'.path = inp.path
          /\ PushOperation(u, inp, TRUE)
          /\ StrategyRaised(inp.path) )
        => /\ last'.result = "blocked"
           /\ UNCHANGED << operation_queue, pending_operations, version >>
           /\ ~conflicts'[inp.path][Len(conflicts'[inp.path])].resolved

\* C20: when the strategy of a conflict raises (a null content or position
\* among its operations) and the database call succeeds, the push returns
\* without an error, the conflict stays unresolved and nothing is queued or
\* added to a pending list.
C20_StrategyErrorBlocks == [][C20_Step]_vars

C20_Witness ==
    /\ last.call = "push_operation" /\ last.result = "blocked"
    /\ operation_queue = <<>>
    /\ \E i \in 1..Len(conflicts["f"][1].operations) :
           /\ ops[conflicts["f"][1].operations[i]].operation_type = "delete"
           /\ IsNone(ops[conflicts["f"][1].operations[i]].position)
    /\ ops[conflicts["f"][1].operations[1]].operation_type = "insert"

C21_Step ==
    \A u \in Users :
        ( /\ last'.call = "push_operation" /\ last'.user = u
          /\ operation_queue' # operation_queue )
        => /\ last'.result = "ok"
           /\ operation_queue' = Append(operation_queue, last'.ref)
           /\ pending_operations'[u] = Append(pending_operations[u], last'.ref)
           /\ (Len(ops') > Len(ops) + 1 =>
                  /\ last'.ref = Len(ops')
                  /\ ops'[last'.ref].user_id = SYSTEM)

\* C21: a push that puts an operation on the apply queue, with or without a
\* conflict resolved on the way, returns without error and lengthens the
\* pending list of the user who pushed by that operation; when the strategy
\* built a new operation, it is the new operation that is queued.
C21_QueuedPushSucceeds == [][C21_Step]_vars

\* The consumer task exists, the coordinator is running and o waits on the queue.
Queued(o) == o \in Range(operation_queue) /\ running /\ loop # "none"
InWindow(o) == o \in DOMAIN ops /\ ops[o].version # -1 /\ o \in Range(Window(ops[o].path))
IsPrefix(s, t) == Len(s) <= Len(t) /\ s = SubSeq(t, 1, Len(s))

C22_Step ==
    IF last'.call = "process_operations" /\ last'.result = "applied"
    THEN /\ operation_queue # <<>>
         /\ last'.ref = Head(operation_queue)
         /\ operation_queue' = Tail(operation_queue)
         /\ ops'[last'.ref].version = version + 1
         /\ Get(recent_operations', ops[last'.ref].path, <<>>)
                = Append(Window(ops[last'.ref].path), last'.ref)
    ELSE IsPrefix(operation_queue, operation_queue')

C22_Eventually == \A o \in 1..(MaxOps + 1) : Queued(o) ~> (InWindow(o) \/ ~running)

C23_Inv ==
    \A p \in DOMAIN recent_operations :
        /\ Len(Window(p)) <= recent_ops_limit
        /\ \A i \in 1..Len(Window(p)) :
               /\ ops[Window(p)[i]].path = p
               /\ Window(p)[i] \in Applied

C23_Step ==
    IF last'.call = "process_operations" /\ last'.result = "applied"
    THEN LET o == last'.ref
             p == ops[o].path
         IN  /\ operation_queue # <<>> /\ o = Head(operation_queue)
             /\ recent_operations'[p] =
                    IF Len(Window(p)) = recent_ops_limit
                    THEN Append(Tail(Window(p)), o)
                    ELSE Append(Window(p), o)
             /\ \A q \in DOMAIN recent_operations \ {p} :
                    recent_operations'[q] = recent_operations[q]
    ELSE recent_operations' = recent_operations

\* C23: the window of a path never holds more than recent_ops_limit (10)
\* operations; every entry is an operation on that path the consumer has taken
\* off the queue and versioned; the window changes only when the consumer takes
\* an operation, which is appended at the end (so the entries are in apply
\* order), and appending to a window of 10 removes its first, oldest entry.
C23_WindowBounded == []C23_Inv /\ [][C23_Step]_vars

\* The window of "f" is full and its oldest applied operation was evicted.
C23_Witness ==
    /\ Len(Window("f")) = recent_ops_limit
    /\ \E o \in Applied : ops[o].path = "f" /\ o \notin Range(Window("f"))
    /\ \A i \in 1..Len(Window("f")) : ops[Window("f")[i]].version > 1

C24_Step ==
    last'.call = "release_lock" =>
        LET p == last'.path
            u == last'.user
        IN  IF p \in DOMAIN locked_files /\ locked_files[p] = u
            THEN /\ last'.result = "true"
                 /\ locked_files' = Del(locked_files, p)
            ELSE /\ last'.result = "false"
                 /\ locked_files' = locked_files
                 /\ chan' = chan

\* C24: release_lock(p, u) by a user who does not hold p (p is unlocked, or
\* locked by somebody else) returns false, changes no lock and puts no event on
\* any channel; it returns true exactly when u holds p, and then removes p's
\* entry and no other.
C24_ReleaseByHolderOnly == [][C24_Step]_vars

\* B's release of a path A holds was refused while a channel watches the path.
C24_Witness ==
    /\ last.call = "release_lock" /\ last.result = "false"
    /\ last.path \in DOMAIN locked_files
    /\ locked_files[last.path] # last.user
    /\ \E c \in Get(subscribers, last.path, {}) : chan[c] # <<>>

\* The last item of channel c is an event of type t about path p.
Received(ch, c, t, p) ==
    /\ ch[c] # <<>>
    /\ ch[c][Len(ch[c])].type = t
    /\ ch[c][Len(ch[c])].path = p

C25_Step ==
    \A p \in ExistingPaths : \A c \in Get(subscribers, p, {}) :
        /\ (last'.call = "process_operations" /\ last'.result = "applied" /\ last'.path = p)
           => (Len(chan'[c]) = Len(chan[c]) + 1 /\ Received(chan', c, "operation", p))
        /\ (last'.call = "acquire_lock" /\ last'.result = "true" /\ last'.path = p)
           => (Len(chan'[c]) = Len(chan[c]) + 1 /\ Received(chan', c, "lock_acquired", p))
        /\ (last'.call = "release_lock" /\ last'.result = "true" /\ last'.path = p)
           => (Len(chan'[c]) = Len(chan[c]) + 1 /\ Received(chan', c, "lock_released", p))
        /\ (last'.call = "push_operation" /\ last'.result = "blocked" /\ last'.path = p)
           => (Len(chan'[c]) = Len(chan[c]) + 1 /\ Received(chan', c, "conflict", p))

\* C25: a channel subscribed to p is handed every event about p from then on:
\* the step that applies an operation on p, that locks or unlocks p, or that
\* leaves a conflict on p unresolved puts the event on every channel
\* registered for p at that time.
C25_SubscriberReceivesAll == [][C25_Step]_vars

\* The step is the second half of a push that was suspended in record_operation.
Resumed == in_flight' # in_flight /\ in_flight' \subseteq in_flight

C26_Step ==
    last'.call = "push_operation" =>
        IF Resumed
        THEN last'.result = "ok"
        ELSE IF last'.user \notin users
        THEN /\ last'.result = "ValueError"
             /\ operation_queue' = operation_queue
             /\ ops' = ops
        ELSE operation_queue' # operation_queue => last'.result \in {"ok", "awaiting"}

\* C26: however disconnect_user(u) and the pushes of u interleave, a push that
\* validates when u is not (or no longer) registered is rejected with
\* ValueError and puts nothing on the queue, and a push that validated while u
\* was registered and queued its operation ends normally, also when it was
\* suspended and u was removed before it went on.
C26_DisconnectSafeForPushes == [][C26_Step]_vars

C27_Step ==
    /\ last'.call \in {"check_conflict", "resolve_conflict", "push_operation"}
       => \A i \in DOMAIN ops : ops'[i] = ops[i]
    /\ last'.call = "process_operations"
       => \A i \in Applied : ops'[i] = ops[i]

\* C27: check_conflict, resolve_conflict and a push leave every operation that
\* exists (the operations of the conflict, those of the windows) with the
\* kind, path, content, position, user and version it had; the consumer
\* changes no operation that already has a version.
C27_OperationsImmutable == [][C27_Step]_vars

C28_Step ==
    ( /\ last'.call = "push_operation"
      /\ Len(operation_queue') > Len(operation_queue) )
    => /\ ~Full(operation_queue)
       /\ Len(operation_queue) < maxsize

\* C28: the apply queue has a fixed capacity: a push puts its operation on the
\* queue only while the queue holds fewer operations than its maxsize, so the
\* length never exceeds it; at capacity the push waits.
C28_QueueBounded == [][C28_Step]_vars

C29_Step ==
    /\ last'.call = "unsubscribe" =>
          LET k == last'.path
              q == last'.ref
          IN  /\ last'.result = "ok"
              /\ chan' = chan
              /\ subscribers' = IF k \in DOMAIN subscribers
                                THEN Put(subscribers, k, subscribers[k] \ {q})
                                ELSE subscribers
    /\ last'.call \in {"acquire_lock", "release_lock"} =>
          \A c \in DOMAIN chan :
              c \notin Get(subscribers, last'.path, {}) => chan'[c] = chan[c]

\* C29: unsubscribe(p, ch) takes ch, and nothing else, out of the subscriber
\* set of p, after which ch receives no event about p (the set of a path whose
\* only channel left is empty); when ch is not in the set of p, or p has no
\* set, it changes nothing and raises nothing.
C29_UnsubscribeRemovesOne == [][C29_Step]_vars

C30_Step ==
    /\ (last'.call = "connect_user" /\ last'.result = "ok") =>
          /\ last'.user \in users'
          /\ last'.user \in DOMAIN subscribers'
    /\ (last'.call = "disconnect_user" /\ last'.result = "ok") =>
          /\ last'.user \notin users'
          /\ last'.user \notin DOMAIN pending_operations'
          /\ last'.user \notin DOMAIN subscribers'

\* C30: connect_user(u) leaves u in users and in the subscriber registry;
\* after disconnect_user(u) has returned, u is in users no more, nor a key of
\* the subscriber registry, nor of the pending-operations map.
C30_DisconnectForgetsUser == [][C30_Step]_vars

C31_Step ==
    ( /\ last'.call = "process_operations" /\ last'.result = "applied"
      /\ last'.user \in Users )
    => \/ last'.path \notin DOMAIN locked_files
       \/ locked_files[last'.path] = last'.user

\* C31: the consumer applies an operation of user u on path p (appends it to
\* the window of p and gives it a version) only while p is unlocked or locked
\* by u; an operation queued while p was unlocked is not applied once another
\* user holds the lock on p.
C31_NoApplyUnderForeignLock == [][C31_Step]_vars

\* The conflicts recorded for path p.
ConflictsOn(cs, p) == Get(cs, p, <<>>)

C32_Step ==
    ( /\ last'.call = "push_operation"
      /\ Len(ops') > Len(ops) )
    => LET new == Len(ops) + 1
           p == last'.path
       IN  \A o \in Range(operation_queue) :
               OperationsConflict(ops'[new], ops[o]) = "yes"
               => /\ Len(ConflictsOn(conflicts', p)) = Len(ConflictsOn(conflicts, p)) + 1
                  /\ o \in Range(conflicts'[p][Len(conflicts'[p])].operations)

\* C32: a push whose operation conflicts with an operation of another user on
\* the same path that is queued and not yet applied detects that conflict: the
\* Conflict it records names the queued operation, so the two are never both
\* applied unchecked.
C32_QueuedOperationsAreChecked == [][C32_Step]_vars

\* C33: every holder recorded in locked_files is a registered user: for each
\* locked path, the user holding it is in users, whatever connect_user,
\* disconnect_user, acquire_lock and release_lock calls were made.
C33_HoldersConnected == \A p \in DOMAIN locked_files : locked_files[p] \in users

C34_Step ==
    ( /\ last'.call = "process_operations" /\ last'.result = "applied"
      /\ Get(subscribers, last'.path, {}) # {} )
    => LET o == last'.ref
           b == AtBroadcast(o)
       IN  /\ o \in Range(Get(b.recent_operations, last'.path, <<>>))
           /\ b.ops[o].version >= 1

\* C34: when the consumer puts an operation on the channels of its path, the
\* operation is already in the window of the path and already has its version
\* (1 or more): the window append and the version assignment come before the
\* publication.
C34_VersionedBeforePublished == [][C34_Step]_vars

\* What _validate_operation asks of an input pushed by u.
IsValid(inp, u) ==
    /\ inp.operation_type \in Kinds
    /\ inp.path \in ExistingPaths
    /\ u \in users
LockedByOther(p, u) == p \in DOMAIN locked_files /\ locked_files[p] # u

C35_Step ==
    /\ \A u \in Users, inp \in OpInputs :
           ( /\ last'.call = "push_operation" /\ last'.user = u /\ last'.path = inp.path
             /\ last'.result \in {"ValueError", "PermissionError"} \/ ~IsValid(inp, u)
                                                                  \/ LockedByOther(inp.path, u)
             /\ PushOperation(u, inp, TRUE) )
           => /\ ~IsValid(inp, u) =>
                    /\ last'.result = "ValueError"
                    /\ UNCHANGED << conflicts, ops, operation_queue >>
              /\ (IsValid(inp, u) /\ LockedByOther(inp.path, u)) =>
                    /\ last'.result = "PermissionError"
                    /\ UNCHANGED << conflicts, ops, operation_queue >>
    /\ (last'.call = "push_operation" /\ last'.result \in {"ValueError", "PermissionError"})
           => UNCHANGED << conflicts, ops, operation_queue >>
    /\ (last'.call = "push_operation" /\ conflicts' # conflicts)
           => /\ last'.user \in users
              /\ last'.path \in ExistingPaths
              /\ ~LockedByOther(last'.path, last'.user)

Arrived(c) == { i \in 1..Len(chan'[c]) : i > Len(chan[c]) }

C36_Step ==
    \A p \in ExistingPaths :
        (p \in DOMAIN locked_files /\ p \notin DOMAIN locked_files')
        => \A c \in Get(subscribers, p, {}) :
               \E i \in Arrived(c) :
                   chan'[c][i].type = "lock_released" /\ chan'[c][i].path = p

\* C36: a step that removes the lock of a path puts a lock_released event for
\* that path on every channel subscribed to it, whether the holder released
\* the lock or disconnected.
C36_LockRemovalAnnounced == [][C36_Step]_vars

\* A comparison of operation o with an entry of the window of its path raises.
RaisesInWindow(o) ==
    \E i \in 1..Len(Window(o.path)) : OperationsConflict(o, ops[Window(o.path)[i]]) = "raise"

\* An entry of the window of its path conflicts with operation o.
ConflictsInWindow(o) ==
    \E i \in 1..Len(Window(o.path)) : OperationsConflict(o, ops[Window(o.path)[i]]) = "yes"

C37_Step ==
    \A u \in Users, inp \in NoPositionInputs :
        LET operation == NewOperation(inp, u, Len(ops) + 1)
        IN  ( /\ last'.call = "push_operation" /\ last'.user = u /\ last'.path = inp.path
              /\ \E ok \in BOOLEAN : PushOperation(u, inp, ok)
              /\ IsValid(inp, u) /\ ~LockedByOther(inp.path, u)
              /\ RaisesInWindow(operation) )
            => /\ ops' = Append(ops, operation)
               /\ operation_queue' = Append(operation_queue, Len(ops) + 1)
               /\ last'.ref = Len(ops) + 1
               /\ last'.result \in {"ok", "PersistenceError"}
               /\ UNCHANGED << conflicts, chan >>

Latest ==
    CHOOSE o \in Range(ConflictOps) :
        \A q \in Range(ConflictOps) : ops[q].timestamp <= ops[o].timestamp

C38_Step ==
    (Resolving /\ CompleteConflict("modify"))
    => IF ops[Latest].content = Some("")
       THEN last'.result = "none" /\ ops' = ops
       ELSE /\ last'.result = "resolution"
            /\ last'.ref = Len(ops) + 1
            /\ ops'[last'.ref].content = ops[Latest].content

\* C38: resolving a conflict of modify operations that all have a content
\* yields a modify whose content is exactly the content of the operation with
\* the greatest timestamp, whatever lines the earlier contents had; when that
\* content is empty the strategy returns nothing.
C38_MergeIsLatestContent == [][C38_Step]_vars

\* Three versions were merged: a line of the earliest is in neither the latest
\* nor the result.
C38_Witness ==
    /\ last.call = "resolve_conflict" /\ last.result = "resolution"
    /\ ~IsNone(current_conflict)
    /\ Len(Val(current_conflict).operations) = 3
    /\ ops[last.ref].content = Some("bc")
    /\ \E o \in Range(Val(current_conflict).operations) :
           /\ ops[o].content = Some("ab")
           /\ \A q \in Range(Val(current_conflict).operations) :
                  ops[o].timestamp <= ops[q].timestamp

====
